---- MODULE Spec2Model ----
(***************************************************************************)
(* Model of the LaTeX-to-Word converter (src/latex_to_word.py): the        *)
(* orchestrator convert() as a state machine over the file system and the  *)
(* in-memory Document, and the refinement passes as operators on the       *)
(* Document.                                                               *)
(*                                                                         *)
(* Text is a sequence of one-character strings.  Characters outside ASCII  *)
(* are written with an ASCII label, one label per character:               *)
(*    "~"  is U+223C (the tilde operator of the source's patterns),        *)
(*    "=~" is U+2248 (almost equal), "*" is U+2022 (bullet),               *)
(*    "ae" is U+00E4, "ue" is U+00FC.                                      *)
(***************************************************************************)
EXTENDS Integers, Sequences, FiniteSets, TLC

(***************************************************************************)
(* Characters and string helpers (Python str and re semantics).            *)
(***************************************************************************)
Digit == {"0", "1", "2", "3", "4", "5", "6", "7", "8", "9"}

Whitespace == {" ", "\n"}

\* s.startswith(p)
StartsWith(s, p) == Len(s) >= Len(p) /\ SubSeq(s, 1, Len(p)) = p

\* p in s
Contains(s, p) == \E i \in 1..(Len(s) - Len(p) + 1) : SubSeq(s, i, i + Len(p) - 1) = p

RECURSIVE LStrip(_)
LStrip(s) == IF s # <<>> /\ Head(s) \in Whitespace THEN LStrip(Tail(s)) ELSE s

RECURSIVE RStrip(_)
RStrip(s) ==
    IF s # <<>> /\ s[Len(s)] \in Whitespace THEN RStrip(SubSeq(s, 1, Len(s) - 1)) ELSE s

\* s.strip()
Strip(s) == RStrip(LStrip(s))

\* s.split('\n'): the lines of s, at least one
RECURSIVE SplitLines(_)
SplitLines(s) ==
    IF \E i \in 1..Len(s) : s[i] = "\n"
    THEN LET i == CHOOSE k \in 1..Len(s) : s[k] = "\n" /\ \A j \in 1..(k - 1) : s[j] # "\n"
         IN  <<SubSeq(s, 1, i - 1)>> \o SplitLines(SubSeq(s, i + 1, Len(s)))
    ELSE <<s>>

\* '\n'.join(lines)
RECURSIVE JoinLines(_)
JoinLines(lines) ==
    IF lines = <<>> THEN <<>>
    ELSE IF Len(lines) = 1 THEN lines[1]
    ELSE lines[1] \o <<"\n">> \o JoinLines(Tail(lines))

(***************************************************************************)
(* re.sub for the patterns of fixed length.  A rule is a record            *)
(*   pat  : sequence of character sets, one per pattern position,          *)
(*   repl : sequence of pieces [t, a, b]; a piece emits the literal t and  *)
(*          then positions a..b of the matched text (a group reference).   *)
(* re.sub replaces the leftmost match and goes on after its end.           *)
(***************************************************************************)
Lit(s) == [i \in 1..Len(s) |-> {s[i]}]

MatchAt(pat, s, i) ==
    /\ i + Len(pat) - 1 <= Len(s)
    /\ \A k \in 1..Len(pat) : s[i + k - 1] \in pat[k]

RECURSIVE Expand(_, _)
Expand(repl, m) ==
    IF repl = <<>> THEN <<>>
    ELSE Head(repl).t \o SubSeq(m, Head(repl).a, Head(repl).b) \o Expand(Tail(repl), m)

\* the least element of a non-empty set of positions
Leftmost(S) == CHOOSE k \in S : \A j \in S : k <= j

\* the text from position i on: what precedes the leftmost match is kept,
\* the match is replaced, the search goes on after the match
RECURSIVE SubFrom(_, _, _)
SubFrom(rule, s, i) ==
    LET matches == {k \in i..Len(s) : MatchAt(rule.pat, s, k)}
    IN  IF matches = {} THEN SubSeq(s, i, Len(s))
        ELSE LET k == Leftmost(matches)
             IN  SubSeq(s, i, k - 1)
                     \o Expand(rule.repl, SubSeq(s, k, k + Len(rule.pat) - 1))
                     \o SubFrom(rule, s, k + Len(rule.pat))

\* re.sub(pattern, replacement, text)
ReSub(rule, s) == SubFrom(rule, s, 1)

\* for pattern, replacement in replacements: text = re.sub(pattern, replacement, text)
RECURSIVE ApplyRules(_, _)
ApplyRules(rules, s) ==
    IF rules = <<>> THEN s
    ELSE LET t == ReSub(Head(rules), s)
         IN  IF t = s THEN ApplyRules(Tail(rules), s) ELSE ApplyRules(Tail(rules), t)

\* a replacement without group references
Const(t) == <<[t |-> t, a |-> 1, b |-> 0]>>

(***************************************************************************)
(* The literal strings of the source.                                      *)
(***************************************************************************)
y2016 == <<"2", "0", "1", "6">>
y2020 == <<"2", "0", "2", "0">>
y2021 == <<"2", "0", "2", "1">>
y2022 == <<"2", "0", "2", "2">>
y2025 == <<"2", "0", "2", "5">>
sBis == <<" ", "b", "i", "s", " ">>
sHeute == <<"h", "e", "u", "t", "e">>
sName == <<"A", "r", "m", "a", "n", " ", "S", "h", "i", "r", "z", "a", "d">>
sCottbus == <<"C", "o", "t", "t", "b", "u", "s">>
sLocation == sCottbus \o <<",", " ", "G", "e", "r", "m", "a", "n", "y">>
sEmail == <<"s", "h", "i", "r", "z", "a", "r", "m", "@", "b", "-", "t", "u", ".", "d", "e">>
sPhone == <<"+", "4", "9", " ", "1", "5", "7", " ", "5", "6", "6", "9", " ", "3", "8", "0", "4">>
sSpaces == <<" ", " ", " ", " ">>
sQuad == <<"\\", "q", "u", "a", "d">>
sSim == <<"\\", "s", "i", "m">>
sApprox == <<"\\", "a", "p", "p", "r", "o", "x">>
sContact == sLocation \o sSpaces \o sEmail \o sSpaces \o sPhone
sReqTag == <<" ", "R", "e", "q", "u", "e", "s", "t", "s", "/", "T", "a", "g">>
sNutzer == <<" ", "N", "u", "t", "z", "e", "r">>
sIntegriert == <<" ", "i", "n", "t", "e", "g", "r", "i", "e", "r", "t">>
sKosten == <<"K", "o", "s", "t", "e", "n">>
sNiedriger == <<" ", "n", "i", "e", "d", "r", "i", "g", "e", "r">>
s10k == <<" ", "~", " ", "1", "0", ",", "0", "0", "0">>
s200k == <<" ", "~", " ", "2", "0", "0", ",", "0", "0", "0">>
s30pct == <<" ", "~", " ", "3", "0", " ", "%">>

(***************************************************************************)
(* _fix_truncated_dates: five (pattern, replacement) pairs, in order.      *)
(***************************************************************************)
TruncatedDateRules ==
    << [pat  |-> Lit(<<"/">> \o y2022 \o sBis \o <<"0", "3", "/">> \o y2025),
        repl |-> <<[t |-> <<"0", "8", "/">>, a |-> 2, b |-> 5],
                   [t |-> sBis, a |-> 11, b |-> 12],
                   [t |-> <<"/">>, a |-> 14, b |-> 17]>>],
       [pat  |-> Lit(<<"/">> \o y2021 \o sBis \o <<"0", "7", "/">> \o y2022),
        repl |-> <<[t |-> <<"0", "3", "/">>, a |-> 2, b |-> 5],
                   [t |-> sBis, a |-> 11, b |-> 12],
                   [t |-> <<"/">>, a |-> 14, b |-> 17]>>],
       [pat  |-> Lit(<<"/">> \o y2020 \o sBis \o sHeute),
        repl |-> <<[t |-> <<"0", "8", "/">>, a |-> 2, b |-> 5],
                   [t |-> sBis \o sHeute, a |-> 1, b |-> 0]>>],
       [pat  |-> Lit(<<"/">> \o y2025 \o sBis \o sHeute),
        repl |-> <<[t |-> <<"0", "3", "/">>, a |-> 2, b |-> 5],
                   [t |-> sBis \o sHeute, a |-> 1, b |-> 0]>>],
       [pat  |-> Lit(<<"/">> \o y2016 \o sBis \o <<"1", "0", "/">> \o y2020),
        repl |-> <<[t |-> <<"0", "9", "/">>, a |-> 2, b |-> 5],
                   [t |-> sBis, a |-> 11, b |-> 12],
                   [t |-> <<"/">>, a |-> 14, b |-> 17]>>] >>

_fix_truncated_dates(text) == ApplyRules(TruncatedDateRules, text)

(***************************************************************************)
(* _fix_percentage_spacing: re.sub(r'~(\d+)%', r'~\1 %', text).  \d+ is    *)
(* greedy and "%" is no digit, so the group is the maximal run of digits.  *)
(***************************************************************************)
RECURSIVE DigitRun(_, _)
DigitRun(s, i) == IF i <= Len(s) /\ s[i] \in Digit THEN 1 + DigitRun(s, i + 1) ELSE 0

\* the pattern matches at position i
PctMatchAt(s, i) ==
    LET n == DigitRun(s, i + 1)
    IN  s[i] = "~" /\ n >= 1 /\ i + n + 1 <= Len(s) /\ s[i + n + 1] = "%"

RECURSIVE PctFrom(_, _)
PctFrom(s, i) ==
    LET matches == {k \in i..Len(s) : PctMatchAt(s, k)}
    IN  IF matches = {} THEN SubSeq(s, i, Len(s))
        ELSE LET k == Leftmost(matches)
                 n == DigitRun(s, k + 1)
             IN  SubSeq(s, i, k - 1)
                     \o <<"~">> \o SubSeq(s, k + 1, k + n) \o <<" ", "%">>
                     \o PctFrom(s, k + n + 2)

_fix_percentage_spacing(text) == PctFrom(text, 1)

(***************************************************************************)
(* _remove_stray_page_numbers: drops every line that is a single digit     *)
(* once stripped (re.match(r'^\s*\d\s*$', line.strip())).                  *)
(***************************************************************************)
IsStrayLine(line) == Len(Strip(line)) = 1 /\ Strip(line)[1] \in Digit

RECURSIVE KeepLines(_)
KeepLines(lines) ==
    IF lines = <<>> THEN <<>>
    ELSE IF IsStrayLine(Head(lines)) THEN KeepLines(Tail(lines))
    ELSE <<Head(lines)>> \o KeepLines(Tail(lines))

_remove_stray_page_numbers(text) == JoinLines(KeepLines(SplitLines(text)))

(***************************************************************************)
(* The replacement tables of _comprehensive_text_replacement and           *)
(* _fix_runs_directly.                                                     *)
(***************************************************************************)
Collapse(d1, d2, d3, d4, m1, m2) ==
    [pat  |-> Lit(<<d1, d2, d3, d4, "/">>) \o <<Digit, Digit, Digit, Digit>>,
     repl |-> <<[t |-> <<m1, m2, "/">>, a |-> 6, b |-> 9]>>]

DoubledPrefixRules ==
    << Collapse("0", "8", "0", "8", "0", "8"),
       Collapse("0", "3", "0", "3", "0", "3"),
       Collapse("0", "7", "0", "8", "0", "7"),
       Collapse("0", "9", "0", "9", "0", "9"),
       Collapse("1", "0", "0", "8", "1", "0") >>

Fallback(year, m1, m2) ==
    [pat |-> Lit(<<"/">> \o year), repl |-> Const(<<m1, m2, "/">> \o year)]

BareSlashRules ==
    << Fallback(y2022, "0", "8"),
       Fallback(y2021, "0", "3"),
       Fallback(y2020, "0", "8"),
       Fallback(y2025, "0", "3"),
       Fallback(y2016, "0", "9") >>

ComprehensiveRules == DoubledPrefixRules \o BareSlashRules

\* no rule applied at the run level
RunRules_none == <<>>

RunRules == DoubledPrefixRules

(***************************************************************************)
(* content_fixes of _fix_missing_content.                                  *)
(***************************************************************************)
Fix(p, r) == [pat |-> Lit(p), repl |-> Const(r)]

ContentFixes ==
    << Fix(s10k \o s10k \o sReqTag, s10k \o sReqTag),
       Fix(s200k \o s200k \o sNutzer, s200k \o sNutzer),
       Fix(sKosten \o s30pct \o s30pct \o sNiedriger, sKosten \o s30pct \o sNiedriger),
       Fix(sReqTag, s10k \o sReqTag),
       Fix(sNutzer \o sIntegriert, s200k \o sNutzer \o sIntegriert),
       Fix(sKosten \o <<" ">> \o sNiedriger, sKosten \o s30pct \o sNiedriger),
       Fix(sQuad, sSpaces),
       Fix(sSim, <<"=~">>),
       Fix(sApprox, <<"=~">>) >>

(***************************************************************************)
(* duplicate_patterns of _clean_duplicates, each of the shape              *)
(* (group)\s+\1 -> \1.  The group is a literal, or "~ \d+,?\d*".  A match  *)
(* needs whitespace right after the group and the group's first character  *)
(* right after the whitespace, so only the greedy choice of every          *)
(* quantifier can match.                                                   *)
(***************************************************************************)
RECURSIVE WsRun(_, _)
WsRun(s, i) == IF i <= Len(s) /\ s[i] \in Whitespace THEN 1 + WsRun(s, i + 1) ELSE 0

NumGroupLen(s, i) ==
    IF i + 2 <= Len(s) /\ s[i] = "~" /\ s[i + 1] = " " /\ s[i + 2] \in Digit
    THEN LET d1 == DigitRun(s, i + 2)
             j  == i + 2 + d1
             c  == IF j <= Len(s) /\ s[j] = "," THEN 1 ELSE 0
         IN  2 + d1 + c + DigitRun(s, j + c)
    ELSE 0

GroupLenAt(rule, s, i) ==
    IF rule.kind = "lit"
    THEN IF MatchAt(Lit(rule.lit), s, i) THEN Len(rule.lit) ELSE 0
    ELSE NumGroupLen(s, i)

\* the pattern matches at position i: the group, whitespace, the group again
DupMatchAt(rule, s, i) ==
    LET g == GroupLenAt(rule, s, i)
        w == WsRun(s, i + g)
    IN  /\ g > 0
        /\ w > 0
        /\ i + 2 * g + w - 1 <= Len(s)
        /\ SubSeq(s, i + g + w, i + 2 * g + w - 1) = SubSeq(s, i, i + g - 1)

RECURSIVE DupFrom(_, _, _)
DupFrom(rule, s, i) ==
    LET matches == {k \in i..Len(s) : DupMatchAt(rule, s, k)}
    IN  IF matches = {} THEN SubSeq(s, i, Len(s))
        ELSE LET k == Leftmost(matches)
                 g == GroupLenAt(rule, s, k)
             IN  SubSeq(s, i, k - 1) \o SubSeq(s, k, k + g - 1)
                     \o DupFrom(rule, s, k + 2 * g + WsRun(s, k + g))

DuplicatePatterns ==
    << [kind |-> "num", lit |-> <<>>],
       [kind |-> "lit", lit |-> sLocation],
       [kind |-> "lit", lit |-> sEmail],
       [kind |-> "lit", lit |-> sName] >>

RECURSIVE ApplyDups(_, _)
ApplyDups(rules, s) ==
    IF rules = <<>> THEN s ELSE ApplyDups(Tail(rules), DupFrom(Head(rules), s, 1))

(***************************************************************************)
(* The Document: paragraphs (runs and paragraph format), tables (rows of   *)
(* cells, a cell being a sequence of paragraphs), the style registry and   *)
(* the sections.  An optional value (None in the source) is the empty      *)
(* sequence, a set value v is <<v>>.  Lengths given with Pt() are in       *)
(* points, lengths given with Cm() in millimetres, line spacings in        *)
(* tenths.                                                                 *)
(***************************************************************************)
None == <<>>

Some(v) == <<v>>

RECURSIVE Concat(_)
Concat(ss) == IF ss = <<>> THEN <<>> ELSE Head(ss) \o Concat(Tail(ss))

\* paragraph.text (getter): the concatenation of the runs' text
ParText(p) == Concat([i \in DOMAIN p.runs |-> p.runs[i].text])

\* paragraph.add_run(text)
NewRun(t) == [text |-> t, color |-> "none", pic |-> FALSE]

\* paragraph.text = t (setter): all runs are removed, one run holds t
SetParText(p, t) == [p EXCEPT !.runs = <<NewRun(t)>>]

\* a paragraph without paragraph properties, as tc.add_p() creates it
NewParagraph(t) ==
    [runs |-> <<NewRun(t)>>, style |-> "Normal", alignment |-> "none",
     left_indent |-> None, space_before |-> None, space_after |-> None,
     line_spacing |-> None]

\* cell.text (getter): the cell's paragraphs joined by '\n'
CellText(cell) == JoinLines([i \in DOMAIN cell |-> ParText(cell[i])])

\* cell.text = t (setter): the content is cleared, one new paragraph holds t
SetCellText(cell, t) == <<NewParagraph(t)>>

(***************************************************************************)
(* _setup_document_styles                                                  *)
(***************************************************************************)
\* styles.add_style(name, WD_STYLE_TYPE.PARAGRAPH): a style with nothing set
AddedStyle ==
    [font_name |-> "none", font_size |-> None, bold |-> "none",
     line_spacing |-> None, space_before |-> None, space_after |-> None,
     first_line_indent |-> None]

StyleOf(styles, name) == IF name \in DOMAIN styles THEN styles[name] ELSE AddedStyle

_setup_document_styles(doc) ==
    LET normal  == [doc.styles["Normal"] EXCEPT
                       !.font_name = "Liberation Serif",
                       !.font_size = Some(10),
                       !.line_spacing = Some(9),
                       !.space_before = Some(0),
                       !.space_after = Some(1),
                       !.first_line_indent = Some(0)]
        heading == [StyleOf(doc.styles, "Heading 1") EXCEPT
                       !.font_name = "Liberation Serif",
                       !.font_size = Some(12),
                       !.bold = "True",
                       !.space_before = Some(3),
                       !.space_after = Some(1),
                       !.line_spacing = Some(10)]
    IN  [doc EXCEPT !.styles =
            [n \in DOMAIN doc.styles \cup {"Heading 1"} |->
                IF n = "Normal" THEN normal
                ELSE IF n = "Heading 1" THEN heading
                ELSE doc.styles[n]]]

(***************************************************************************)
(* _apply_page_layout                                                      *)
(***************************************************************************)
LayoutSection(section) ==
    [section EXCEPT !.top_margin = Some(10), !.bottom_margin = Some(10),
                    !.left_margin = Some(10), !.right_margin = Some(10),
                    !.page_width = Some(210), !.page_height = Some(297)]

_apply_page_layout(doc) ==
    [doc EXCEPT !.sections = [i \in DOMAIN doc.sections |-> LayoutSection(doc.sections[i])]]

(***************************************************************************)
(* _format_sections and _format_lists: over doc.paragraphs, the top-level  *)
(* paragraphs of the body.                                                 *)
(***************************************************************************)
section_keywords ==
    {
       <<"K", "u", "r", "z", "p", "r", "o", "f", "i", "l">>,
       <<"B", "e", "r", "u", "f", "s", "e", "r", "f", "a", "h", "r", "u", "n", "g">>,
       <<"P", "r", "o", "j", "e", "k", "t", "e">>,
       <<"A", "u", "s", "b", "i", "l", "d", "u", "n", "g">>,
       <<"K", "e", "n", "n", "t", "n", "i", "s", "s", "e", " ", "u", "n", "d", " ", "F", "ae", "h", "i", "g", "k", "e", "i", "t", "e", "n">>,
       <<"P", "u", "b", "l", "i", "k", "a", "t", "i", "o", "n", "e", "n">>,
       <<"Z", "e", "r", "t", "i", "f", "i", "k", "a", "t", "e">>,
       <<"S", "p", "r", "a", "c", "h", "e", "n">>,
       <<"V", "e", "r", "f", "ue", "g", "b", "a", "r", "k", "e", "i", "t">>,
       <<"L", "i", "n", "k", "s">>
    }

IsHeading(text) == \E keyword \in section_keywords : StartsWith(Strip(text), keyword)

IsListItem(text) == StartsWith(Strip(text), <<"*">>) \/ StartsWith(Strip(text), <<"-">>)

\* the alignment left as the draft has it
FormatSection_unaligned(p) ==
    IF IsHeading(ParText(p)) THEN [p EXCEPT !.style = "Heading 1"] ELSE p

FormatSection(p) ==
    IF IsHeading(ParText(p))
    THEN [p EXCEPT !.style = "Heading 1", !.alignment = "LEFT"]
    ELSE p

_format_sections(doc) ==
    [doc EXCEPT !.paragraphs = [i \in DOMAIN doc.paragraphs |-> FormatSection(doc.paragraphs[i])]]

\* the indent added to the one the paragraph has
FormatList_relative(p) ==
    IF IsListItem(ParText(p))
    THEN [p EXCEPT !.left_indent = Some((IF @ = None THEN 0 ELSE @[1]) + 10),
                   !.space_before = Some(0),
                   !.space_after = Some(-1), !.line_spacing = Some(9)]
    ELSE p

FormatList(p) ==
    IF IsListItem(ParText(p))
    THEN [p EXCEPT !.left_indent = Some(10), !.space_before = Some(0),
                   !.space_after = Some(-1), !.line_spacing = Some(9)]
    ELSE p

_format_lists(doc) ==
    [doc EXCEPT !.paragraphs = [i \in DOMAIN doc.paragraphs |-> FormatList(doc.paragraphs[i])]]

(***************************************************************************)
(* _format_hyperlinks: a run colour that is set and not black is reset.    *)
(***************************************************************************)
ResetColor(r) == IF r.color \notin {"none", "black"} THEN [r EXCEPT !.color = "none"] ELSE r

FormatHyperlinksPara(p) == [p EXCEPT !.runs = [i \in DOMAIN p.runs |-> ResetColor(p.runs[i])]]

_format_hyperlinks(doc) ==
    [doc EXCEPT !.paragraphs =
        [i \in DOMAIN doc.paragraphs |-> FormatHyperlinksPara(doc.paragraphs[i])]]

\* the style and layout calls of load_and_refine_document, in its order
Normalizer(doc) ==
    _format_hyperlinks(_format_lists(_format_sections(
        _apply_page_layout(_setup_document_styles(doc)))))

(***************************************************************************)
(* _fix_header_content                                                     *)
(***************************************************************************)
\* line.replace('\\quad', '    ')
ReplaceQuad(line) == ReSub(Fix(sQuad, sSpaces), line)

\* the body of "for line in lines": the lines appended to cleaned_lines
RECURSIVE CleanLines(_)
CleanLines(lines) ==
    IF lines = <<>> THEN <<>>
    ELSE LET stripped == Strip(Head(lines))
             line     == ReplaceQuad(stripped)
             rest     == CleanLines(Tail(lines))
         IN  IF stripped = <<>> THEN rest
             ELSE IF Contains(line, sCottbus) /\ Contains(line, sEmail)
                  THEN IF ~Contains(line, sPhone)
                       THEN <<sContact>> \o rest
                       ELSE <<ReplaceQuad(line)>> \o rest
             ELSE IF Contains(line, sName) THEN <<line>> \o rest
             ELSE rest

AnyLineContains(lines, marker) == \E i \in DOMAIN lines : Contains(lines[i], marker)

\* "Ensure we have the name and contact info"
EnsureLines(cleaned) ==
    LET withName == IF ~AnyLineContains(cleaned, sName) THEN <<sName>> \o cleaned ELSE cleaned
    IN  IF ~AnyLineContains(withName, sCottbus) THEN withName \o <<sContact>> ELSE withName

HeaderLines(header_text) == EnsureLines(CleanLines(SplitLines(header_text)))

_fix_header_content(table) ==
    LET row0 == table[1]
    IN  << [row0 EXCEPT ![1] = SetCellText(row0[1], JoinLines(HeaderLines(CellText(row0[1]))))] >>

(***************************************************************************)
(* _add_photo_to_header_table.  photo_paths is <<cwd, directory of the     *)
(* tex file, cwd>>; a path's status is "absent" (os.path.exists is         *)
(* False), "ok", or "bad" (add_picture raises, the exception is caught     *)
(* and the next path is tried).                                            *)
(***************************************************************************)
PictureRun == [text |-> <<>>, color |-> "none", pic |-> TRUE]

\* alignment = RIGHT, clear(), add_run(), add_picture(): ok says whether add_picture succeeded
EmbedInto(p, ok) ==
    [p EXCEPT !.alignment = "RIGHT", !.runs = <<IF ok THEN PictureRun ELSE NewRun(<<>>)>>]

RECURSIVE TryPhotoPaths(_, _)
TryPhotoPaths(table, statuses) ==
    IF statuses = <<>> THEN table
    ELSE IF Head(statuses) = "absent" THEN TryPhotoPaths(table, Tail(statuses))
    ELSE IF Head(statuses) = "ok"
         THEN [table EXCEPT ![1][2][1] = EmbedInto(@, TRUE)]
    ELSE TryPhotoPaths([table EXCEPT ![1][2][1] = EmbedInto(@, FALSE)], Tail(statuses))

_add_photo_to_header_table(table, cwdPhoto, texDirPhoto) ==
    TryPhotoPaths(table, <<cwdPhoto, texDirPhoto, cwdPhoto>>)

(***************************************************************************)
(* _handle_header_with_photo: the first table that matches is rebuilt,     *)
(* then the loop returns.                                                  *)
(***************************************************************************)
IsHeaderTable(table) ==
    /\ Len(table) >= 2
    /\ Len(table[1]) >= 2
    /\ Contains(Strip(CellText(table[1][1])), sName)
    /\ Contains(Strip(CellText(table[2][1])), sCottbus)

HeaderTables(tables) == {i \in DOMAIN tables : IsHeaderTable(tables[i])}

FirstHeaderTable(tables) ==
    CHOOSE i \in HeaderTables(tables) : \A j \in HeaderTables(tables) : i <= j

\* the loop without its return: every matching table is rebuilt
_handle_header_with_photo_all(doc, cwdPhoto, texDirPhoto) ==
    [doc EXCEPT !.tables =
        [i \in DOMAIN doc.tables |->
            IF IsHeaderTable(doc.tables[i])
            THEN _add_photo_to_header_table(_fix_header_content(doc.tables[i]),
                                            cwdPhoto, texDirPhoto)
            ELSE doc.tables[i]]]

_handle_header_with_photo(doc, cwdPhoto, texDirPhoto) ==
    IF HeaderTables(doc.tables) = {} THEN doc
    ELSE [doc EXCEPT !.tables[FirstHeaderTable(doc.tables)] =
             _add_photo_to_header_table(_fix_header_content(@), cwdPhoto, texDirPhoto)]

(***************************************************************************)
(* _fix_text_issues and its passes.  Every pass visits doc.paragraphs and  *)
(* then the paragraphs of every table cell.                                *)
(***************************************************************************)
\* "if text != paragraph.text: paragraph.text = text"
Rewrite(p, text) == IF text # ParText(p) THEN SetParText(p, text) ELSE p

\* the two loops at the head of _fix_text_issues
FixBasicPara(p) ==
    Rewrite(p, _remove_stray_page_numbers(
                   _fix_percentage_spacing(_fix_truncated_dates(ParText(p)))))

ComprehensivePara(p) == Rewrite(p, ApplyRules(ComprehensiveRules, ParText(p)))

FixRun(r) == [r EXCEPT !.text = ApplyRules(RunRules, r.text)]

FixRunsPara(p) == [p EXCEPT !.runs = [i \in DOMAIN p.runs |-> FixRun(p.runs[i])]]

ContentPara(p) == Rewrite(p, ApplyRules(ContentFixes, ParText(p)))

ContentRun(r) == [r EXCEPT !.text = ApplyRules(ContentFixes, r.text)]

ContentRunsPara(p) == [p EXCEPT !.runs = [i \in DOMAIN p.runs |-> ContentRun(p.runs[i])]]

DuplicatesPara(p) == Rewrite(p, ApplyDups(DuplicatePatterns, ParText(p)))

\* what the loop named pass does to one paragraph
PassOnPara(pass, p) ==
    CASE pass = "basic"         -> FixBasicPara(p)
      [] pass = "comprehensive" -> ComprehensivePara(p)
      [] pass = "runs"          -> FixRunsPara(p)
      [] pass = "content"       -> ContentPara(p)
      [] pass = "content runs"  -> ContentRunsPara(p)
      [] pass = "duplicates"    -> DuplicatesPara(p)

\* "for paragraph in self.doc.paragraphs" and then "for table in
\* self.doc.tables: for row in table.rows: for cell in row.cells: for
\* paragraph in cell.paragraphs"
OverAllParas(pass, doc) ==
    [doc EXCEPT
        !.paragraphs = [i \in DOMAIN doc.paragraphs |-> PassOnPara(pass, doc.paragraphs[i])],
        !.tables =
            [t \in DOMAIN doc.tables |->
                [r \in DOMAIN doc.tables[t] |->
                    [c \in DOMAIN doc.tables[t][r] |->
                        [k \in DOMAIN doc.tables[t][r][c] |->
                            PassOnPara(pass, doc.tables[t][r][c][k])]]]]]

_comprehensive_text_replacement(doc) == OverAllParas("comprehensive", doc)

_fix_runs_directly(doc) == OverAllParas("runs", doc)

\* paragraph texts first, over the whole document, then the runs
_fix_missing_content(doc) == OverAllParas("content runs", OverAllParas("content", doc))

_clean_duplicates(doc) == OverAllParas("duplicates", doc)

_fix_text_issues(doc) ==
    _clean_duplicates(
        _fix_missing_content(
            _fix_runs_directly(
                _comprehensive_text_replacement(
                    OverAllParas("basic", doc)))))

(***************************************************************************)
(* The order in which _fix_text_issues applies its rule groups.  A node is *)
(* a paragraph: <<0, 0, 0, i>> is doc.paragraphs[i], <<t, r, c, k>> is     *)
(* paragraph k of cell c of row r of table t.  An event is one rule group  *)
(* applied to one node by one of the loops (passes).                       *)
(***************************************************************************)
\* the paragraphs of the table cells, in the order of the nested loops
CellNodes(doc) ==
    Concat([t \in DOMAIN doc.tables |->
        Concat([r \in DOMAIN doc.tables[t] |->
            Concat([c \in DOMAIN doc.tables[t][r] |->
                [k \in DOMAIN doc.tables[t][r][c] |-> <<t, r, c, k>>]])])])

\* doc.paragraphs first, then the tables
Nodes(doc) == [i \in DOMAIN doc.paragraphs |-> <<0, 0, 0, i>>] \o CellNodes(doc)

\* the loops of _fix_text_issues and of the methods it calls, in order
EnginePasses == <<"basic", "comprehensive", "runs", "content", "content runs", "duplicates">>

\* the fallback listed before the collapse rules
PassGroups_swapped(pass) ==
    CASE pass = "basic" -> <<"date repair", "percentage spacing", "stray-line removal">>
      [] pass = "comprehensive" -> <<"fallback bare-slash repair", "doubled-prefix collapse">>
      [] pass = "runs" -> <<"doubled-prefix collapse">>
      [] pass = "content" -> <<"content restoration">>
      [] pass = "content runs" -> <<"content restoration">>
      [] pass = "duplicates" -> <<"duplicate collapse">>

\* the rule groups a loop applies to a paragraph before it goes to the next
PassGroups(pass) ==
    CASE pass = "basic" -> <<"date repair", "percentage spacing", "stray-line removal">>
      [] pass = "comprehensive" -> <<"doubled-prefix collapse", "fallback bare-slash repair">>
      [] pass = "runs" -> <<"doubled-prefix collapse">>
      [] pass = "content" -> <<"content restoration">>
      [] pass = "content runs" -> <<"content restoration">>
      [] pass = "duplicates" -> <<"duplicate collapse">>

\* one loop: paragraph after paragraph, on each the groups of the loop
PassLog(pass, doc) ==
    Concat([n \in DOMAIN Nodes(doc) |->
        [g \in DOMAIN PassGroups(pass) |->
            [pass |-> pass, group |-> PassGroups(pass)[g], node |-> Nodes(doc)[n]]]])

EngineLog(doc) == Concat([i \in DOMAIN EnginePasses |-> PassLog(EnginePasses[i], doc)])

\* the rules of a group, applied to a text
GroupOnText(group, text) ==
    CASE group = "date repair" -> _fix_truncated_dates(text)
      [] group = "percentage spacing" -> _fix_percentage_spacing(text)
      [] group = "stray-line removal" -> _remove_stray_page_numbers(text)
      [] group = "doubled-prefix collapse" -> ApplyRules(DoubledPrefixRules, text)
      [] group = "fallback bare-slash repair" -> ApplyRules(BareSlashRules, text)
      [] group = "content restoration" -> ApplyRules(ContentFixes, text)
      [] group = "duplicate collapse" -> ApplyDups(DuplicatePatterns, text)

(***************************************************************************)
(* Bounds of the checked inputs.                                           *)
(***************************************************************************)
MaxAtoms == 2

MaxCopies == 3

MaxHeaderLines == 2

MaxTables == 2

(***************************************************************************)
(* Draft documents, as the external converter may write them.              *)
(***************************************************************************)
SeqsUpTo(S, n) == UNION {[1..k -> S] : k \in 1..n}

\* a paragraph of the draft: the converter's body style, nothing else set
Para(runs) ==
    [runs |-> runs, style |-> "Body Text", alignment |-> "none",
     left_indent |-> None, space_before |-> None, space_after |-> None,
     line_spacing |-> None]

\* a paragraph of the draft with paragraph properties of its own
StyledPara(runs) ==
    [runs |-> runs, style |-> "Compact", alignment |-> "CENTER",
     left_indent |-> Some(36), space_before |-> Some(9), space_after |-> Some(9),
     line_spacing |-> Some(12)]

TextPara(t) == Para(<<NewRun(t)>>)

PandocStyle ==
    [font_name |-> "Calibri", font_size |-> Some(16), bold |-> "True",
     line_spacing |-> None, space_before |-> Some(24), space_after |-> Some(0),
     first_line_indent |-> None]

FullStyles == [n \in {"Normal", "Body Text", "Heading 1"} |-> PandocStyle]

NoHeadingStyles == [n \in {"Normal", "Body Text"} |-> PandocStyle]

LetterSection ==
    [top_margin |-> Some(25), bottom_margin |-> Some(25),
     left_margin |-> Some(25), right_margin |-> Some(25),
     page_width |-> Some(216), page_height |-> Some(279)]

Doc(paragraphs, tables) ==
    [paragraphs |-> paragraphs, tables |-> tables,
     styles |-> FullStyles, sections |-> <<LetterSection>>]

\* the value of self.doc before load_and_refine_document assigns it
NoDoc == [paragraphs |-> <<>>, tables |-> <<>>, styles |-> <<>>, sections |-> <<>>]

\* a table of one cell holding paragraph p
CellTable(p) == << << <<p>> >> >>

\* the five truncated date ranges and their corrections
TruncatedRanges ==
    << <<"/">> \o y2022 \o sBis \o <<"0", "3", "/">> \o y2025,
       <<"/">> \o y2021 \o sBis \o <<"0", "7", "/">> \o y2022,
       <<"/">> \o y2020 \o sBis \o sHeute,
       <<"/">> \o y2025 \o sBis \o sHeute,
       <<"/">> \o y2016 \o sBis \o <<"1", "0", "/">> \o y2020 >>

CorrectedRanges ==
    << <<"0", "8", "/">> \o y2022 \o sBis \o <<"0", "3", "/">> \o y2025,
       <<"0", "3", "/">> \o y2021 \o sBis \o <<"0", "7", "/">> \o y2022,
       <<"0", "8", "/">> \o y2020 \o sBis \o sHeute,
       <<"0", "3", "/">> \o y2025 \o sBis \o sHeute,
       <<"0", "9", "/">> \o y2016 \o sBis \o <<"1", "0", "/">> \o y2020 >>

sDoubled == <<"0", "8", "0", "8", "/">> \o y2022

\* text t in one run, or cut into two runs at any place
RunSplits(t) ==
    {<<NewRun(t)>>} \cup
    {<<NewRun(SubSeq(t, 1, k)), NewRun(SubSeq(t, k + 1, Len(t)))>> : k \in 1..(Len(t) - 1)}

RangeDocs ==
    {Doc(<<Para(runs)>>, <<CellTable(Para(runs))>>) :
        runs \in UNION {RunSplits(TruncatedRanges[k]) : k \in DOMAIN TruncatedRanges}
                 \cup RunSplits(sDoubled)}

\* texts put together from fragments of the known artifacts
Atoms ==
    { <<"/">> \o y2020, <<"0", "8">>, <<"0", "5", "/">> \o y2021, sBis, sHeute,
      <<"\n">>, <<"7">>, <<"~", "3", "0", "%">>, sReqTag, sName }

AtomRuns(atoms) == [i \in DOMAIN atoms |-> NewRun(atoms[i])]

AtomDocs ==
    UNION {{Doc(<<TextPara(Concat(atoms))>>, <<CellTable(Para(AtomRuns(atoms)))>>)} :
              atoms \in SeqsUpTo(Atoms, MaxAtoms)}

\* a known string repeated, whitespace between the copies
RECURSIVE Copies(_, _, _)
Copies(x, ws, n) == IF n <= 1 THEN x ELSE x \o ws \o Copies(x, ws, n - 1)

DupDocs ==
    {Doc(<<TextPara(Copies(x, ws, n))>>, <<CellTable(TextPara(Copies(x, ws, n)))>>) :
        x \in {sName, sLocation, sEmail, <<"~", " ", "1", "0", ",", "0", "0", "0">>},
        ws \in {<<" ">>, sSpaces},
        n \in 2..MaxCopies}

\* header tables: the lines of row 0 / column 0, one paragraph per line
sContactDraft == sLocation \o <<" ">> \o sQuad \o <<" ">> \o sEmail
sContactQuad == sContactDraft \o <<" ">> \o sQuad \o <<" ">> \o sPhone
sJunk == <<"L", "e", "b", "e", "n", "s", "l", "a", "u", "f">>

HeaderLineKinds == {sName, sContactDraft, sContactQuad, sLocation, sJunk}

EmptyCell == <<TextPara(<<>>)>>

\* two columns, two rows: the given lines in row 0, text row1 in row 1
HeaderTable(lines, row1) ==
    << <<[i \in DOMAIN lines |-> TextPara(lines[i])], EmptyCell>>,
       <<<<TextPara(row1)>>, EmptyCell>> >>

HeaderDocs ==
    {Doc(<<TextPara(sJunk)>>, <<HeaderTable(lines, row1)>>) :
        lines \in SeqsUpTo(HeaderLineKinds, MaxHeaderLines),
        row1 \in {sContactDraft, sJunk}}

TableKinds ==
    { HeaderTable(<<sName>>, sContactDraft),
      HeaderTable(<<sName, sJunk>>, sLocation),
      HeaderTable(<<sJunk>>, sContactDraft),
      HeaderTable(<<sName>>, sJunk),
      << <<<<TextPara(sName)>>, <<TextPara(sContactDraft)>>>> >>,
      << <<<<TextPara(sName)>>>>, <<<<TextPara(sContactDraft)>>>> >> }

TablesDocs ==
    {Doc(<<TextPara(sJunk)>>, tables) : tables \in {<<>>} \cup SeqsUpTo(TableKinds, MaxTables)}

\* paragraphs by role, in the body and in a table cell
FormatTexts ==
    { <<"K", "u", "r", "z", "p", "r", "o", "f", "i", "l">>,
      <<" ", " ", "P", "r", "o", "j", "e", "k", "t", "e", " ", "2", "0", "2", "4">>,
      <<"K", "e", "n", "n", "t", "n", "i", "s", "s", "e", " ", "u", "n", "d", " ", "F", "ae", "h", "i", "g", "k", "e", "i", "t", "e", "n">>,
      <<"k", "u", "r", "z", "p", "r", "o", "f", "i", "l">>,
      <<"K", "e", "n", "n", "t", "n", "i", "s", "s", "e">>,
      <<"*", " ", "P", "y", "t", "h", "o", "n">>,
      <<" ", "-", " ", "S", "Q", "L">>,
      <<"x", " ", "-", " ", "y">>,
      <<"V", "e", "r", "f", "ue", "g", "b", "a", "r", "k", "e", "i", "t", "\n", "-", " ", "a", "b", " ", "s", "o", "f", "o", "r", "t">> }

ColoredRun(t, color) == [text |-> t, color |-> color, pic |-> FALSE]

FormatParas ==
    UNION {{Para(<<ColoredRun(t, "none")>>),
            StyledPara(<<ColoredRun(t, "blue"), ColoredRun(<<>>, "black")>>)} : t \in FormatTexts}

FormatDocs ==
    {Doc(<<StyledPara(<<NewRun(<<"K", "u", "r", "z", "p", "r", "o", "f", "i", "l">>)>>), StyledPara(<<NewRun(<<"*", " ", "P", "y", "t", "h", "o", "n">>)>>), TextPara(sJunk)>>,
         <<>>)} \cup
    {[paragraphs |-> <<p>>, tables |-> tables, styles |-> v.styles, sections |-> v.sections] :
        p \in FormatParas,
        tables \in {<<>>, <<CellTable(TextPara(<<"*", " ", "P", "y", "t", "h", "o", "n">>))>>, <<CellTable(TextPara(<<"K", "u", "r", "z", "p", "r", "o", "f", "i", "l">>))>>},
        v \in {[styles |-> FullStyles, sections |-> <<LetterSection>>],
               [styles |-> NoHeadingStyles, sections |-> <<LetterSection, LetterSection>>]}}

\* dates that carry their month: every month with every year of the fallback rules
Months ==
    { <<"0", "1">>, <<"0", "2">>, <<"0", "3">>, <<"0", "4">>, <<"0", "5">>, <<"0", "6">>,
      <<"0", "7">>, <<"0", "8">>, <<"0", "9">>, <<"1", "0">>, <<"1", "1">>, <<"1", "2">> }

FallbackYears == {y2016, y2020, y2021, y2022, y2025}

FullDates == {m \o <<"/">> \o y : m \in Months, y \in FallbackYears}

DateDocs == {Doc(<<TextPara(d)>>, <<CellTable(TextPara(d))>>) : d \in FullDates}

\* a draft with work for every stage: a coloured section title, a list
\* item, a truncated date and a header table
WholeDoc ==
    Doc(<<StyledPara(<<ColoredRun(<<"L", "i", "n", "k", "s">>, "blue")>>),
          TextPara(<<"-", " ">> \o TruncatedRanges[3])>>,
        <<HeaderTable(<<sName>>, sContactDraft)>>)

DraftDocs ==
    RangeDocs \cup AtomDocs \cup DupDocs \cup HeaderDocs \cup TablesDocs \cup FormatDocs
        \cup DateDocs \cup {WholeDoc}

(***************************************************************************)
(* The orchestrator: convert() and the methods it calls, one action per    *)
(* step.                                                                   *)
(*   pc          the step convert() is at                                  *)
(*   tex_exists  os.path.exists(self.tex_file)                             *)
(*   draft       the Document the converter's draft file holds             *)
(*   pandoc      how the converter run ended ("none" before it)            *)
(*   draftExists the file temp_<output name> exists                        *)
(*   outExists   the file self.docx_file exists; outDoc is its content     *)
(*   doc         self.doc                                                  *)
(*   prev        self.doc before the step taken last                       *)
(*   photo       what _add_photo_to_header_table found at the candidate    *)
(*               paths <<cwd, directory of the tex file>>; <<>> while it    *)
(*               has not been called                                       *)
(*   applied     the rule groups _fix_text_issues applied, paragraph by    *)
(*               paragraph, in the order it applied them                   *)
(*   result      what convert() returned: "none" while it runs, "True",    *)
(*               "False", or "raised" when an exception left convert()     *)
(*   trace       the steps taken, in order                                 *)
(* Two conversions side by side, each a converter object of its own, have  *)
(* per conversion i:                                                       *)
(*   docx_file[i] its output path (self.docx_file)                         *)
(*   cpc[i]       the step its convert() is at                             *)
(*   cdoc[i]      what its self.doc was loaded from                        *)
(*   cresult[i]   what its convert() returned                              *)
(*   touched[i]   the paths it has read, written or removed                *)
(* and share fs, the content of every path of the directory.               *)
(***************************************************************************)
VARIABLES pc, tex_exists, draft, pandoc, draftExists, outExists, outDoc, doc, prev,
          photo, applied, result, trace,
          docx_file, cpc, cdoc, cresult, touched, fs

vars == <<pc, tex_exists, draft, pandoc, draftExists, outExists, outDoc, doc, prev,
          photo, applied, result, trace,
          docx_file, cpc, cdoc, cresult, touched, fs>>

\* the state of the conversions side by side
pair == <<docx_file, cpc, cdoc, cresult, touched, fs>>

\* what a single conversion does not change
env == <<tex_exists, draft, pair>>

\* the state of the single conversion
single == <<pc, tex_exists, draft, pandoc, draftExists, outExists, outDoc, doc, prev,
            photo, applied, result, trace>>

files == <<draftExists, outExists, outDoc>>

\* the header rebuilt before the lists are formatted
RefineStages_headerEarly ==
    <<"styles", "layout", "sections", "header", "lists", "hyperlinks", "fixtext">>

\* the calls of load_and_refine_document after the load, in order
RefineStages ==
    <<"styles", "layout", "sections", "lists", "header", "hyperlinks", "fixtext">>

\* the text correction left out of the sequence
After_skipping(stage) ==
    LET stages == <<"styles", "layout", "sections", "lists", "header", "hyperlinks">>
        i      == CHOOSE k \in DOMAIN stages : stages[k] = stage
    IN  IF i < Len(stages) THEN stages[i + 1] ELSE "save"

\* the step after a refinement stage; save_document follows the last
After(stage) ==
    LET i == CHOOSE k \in DOMAIN RefineStages : RefineStages[k] = stage
    IN  IF i < Len(RefineStages) THEN RefineStages[i + 1] ELSE "save"

Init ==
    /\ pc = "start"
    /\ tex_exists \in BOOLEAN
    /\ draft \in DraftDocs
    /\ pandoc = "none"
    /\ draftExists = FALSE
    /\ outExists = FALSE
    /\ outDoc = NoDoc
    /\ doc = NoDoc
    /\ prev = NoDoc
    /\ photo = <<>>
    /\ applied = <<>>
    /\ result = "none"
    /\ trace = <<>>
    /\ docx_file = <<>> /\ cpc = <<>> /\ cdoc = <<>> /\ cresult = <<>>
    /\ touched = <<>> /\ fs = <<>>

\* the existence check left out
SourceMissing_unchecked == FALSE

\* "if not os.path.exists(self.tex_file)"
SourceMissing == ~tex_exists

\* convert(): the existence check
CheckSource ==
    /\ pc = "start"
    /\ trace' = Append(trace, "exists")
    /\ IF SourceMissing
       THEN pc' = "done" /\ result' = "False"
       ELSE pc' = "pandoc" /\ result' = result
    /\ UNCHANGED <<env, pandoc, files, doc, prev, photo, applied>>

PandocOutcomes == {"ok", "nonzero", "notfound"}

\* the return code ignored
PandocReturns_ignored(outcome) == TRUE

\* the value convert_with_pandoc returns
PandocReturns(outcome) == outcome = "ok"

\* convert_with_pandoc and the test of its result in convert(); a run that
\* exits non-zero may or may not have written the draft file
ConvertWithPandoc ==
    /\ pc = "pandoc"
    /\ \E outcome \in PandocOutcomes, wrote \in BOOLEAN :
          /\ outcome = "ok" => wrote
          /\ outcome = "notfound" => ~wrote
          /\ pandoc' = outcome
          /\ draftExists' = (draftExists \/ wrote)
          /\ IF PandocReturns(outcome)
             THEN pc' = "load" /\ result' = result
             ELSE pc' = "done" /\ result' = "False"
    /\ trace' = Append(trace, "pandoc")
    /\ UNCHANGED <<env, outExists, outDoc, doc, prev, photo, applied>>

\* load_and_refine_document: Document(temp_docx_path), which may raise
LoadDocument ==
    /\ pc = "load"
    /\ trace' = Append(trace, "load")
    /\ \E ok \in BOOLEAN :
          IF ok /\ draftExists
          THEN doc' = draft /\ pc' = "styles" /\ result' = result
          ELSE doc' = doc /\ pc' = "done" /\ result' = "raised"
    /\ prev' = doc
    /\ UNCHANGED <<env, pandoc, files, photo, applied>>

\* one call of load_and_refine_document: self.doc becomes newDoc
Refine(stage, newDoc) ==
    /\ pc = stage
    /\ trace' = Append(trace, stage)
    /\ doc' = newDoc
    /\ prev' = doc
    /\ pc' = After(stage)
    /\ UNCHANGED <<env, pandoc, files, result>>

SetupDocumentStyles == Refine("styles", _setup_document_styles(doc)) /\ UNCHANGED <<photo, applied>>

ApplyPageLayout == Refine("layout", _apply_page_layout(doc)) /\ UNCHANGED <<photo, applied>>

FormatSections == Refine("sections", _format_sections(doc)) /\ UNCHANGED <<photo, applied>>

FormatLists == Refine("lists", _format_lists(doc)) /\ UNCHANGED <<photo, applied>>

PhotoStatus == {"absent", "ok", "bad"}

\* the candidate paths are looked at only when a table matches
HandleHeaderWithPhoto ==
    \E cwdPhoto \in PhotoStatus, texDirPhoto \in PhotoStatus :
        /\ Refine("header", _handle_header_with_photo(doc, cwdPhoto, texDirPhoto))
        /\ photo' = IF HeaderTables(doc.tables) = {} THEN photo
                    ELSE <<cwdPhoto, texDirPhoto>>
        /\ UNCHANGED applied

FormatHyperlinks == Refine("hyperlinks", _format_hyperlinks(doc)) /\ UNCHANGED <<photo, applied>>

FixTextIssues ==
    /\ Refine("fixtext", _fix_text_issues(doc))
    /\ applied' = EngineLog(doc)
    /\ UNCHANGED photo

\* save_document: self.doc.save(self.docx_file), which may raise
SaveDocument ==
    /\ pc = "save"
    /\ trace' = Append(trace, "save")
    /\ \E ok \in BOOLEAN :
          IF ok
          THEN outExists' = TRUE /\ outDoc' = doc /\ pc' = "cleanup" /\ result' = result
          ELSE outExists' = outExists /\ outDoc' = outDoc /\ pc' = "done" /\ result' = "raised"
    /\ UNCHANGED <<env, pandoc, draftExists, doc, prev, photo, applied>>

\* save_document: "if os.path.exists(temp_docx_path): os.remove(temp_docx_path)",
\* which may raise, and the return of convert()
RemoveDraft ==
    /\ pc = "cleanup"
    /\ pc' = "done"
    /\ IF draftExists
       THEN \E ok \in BOOLEAN :
               IF ok
               THEN draftExists' = FALSE /\ result' = "True"
               ELSE draftExists' = draftExists /\ result' = "raised"
       ELSE draftExists' = draftExists /\ result' = "True"
    /\ trace' = IF draftExists THEN Append(trace, "remove") ELSE trace
    /\ UNCHANGED <<env, pandoc, outExists, outDoc, doc, prev, photo, applied>>

Next ==
    \/ CheckSource
    \/ ConvertWithPandoc
    \/ LoadDocument
    \/ SetupDocumentStyles
    \/ ApplyPageLayout
    \/ FormatSections
    \/ FormatLists
    \/ HandleHeaderWithPhoto
    \/ FormatHyperlinks
    \/ FixTextIssues
    \/ SaveDocument
    \/ RemoveDraft

Spec == Init /\ [][Next]_vars

(***************************************************************************)
(* Two conversions at the same time in one output directory: convert() of  *)
(* two converter objects, their steps interleaved.  A path is a directory  *)
(* and a base name, the base name a sequence of pieces.  The content of a  *)
(* path says which conversion wrote it, from whose draft, and what it is.  *)
(***************************************************************************)
Conversions == {1, 2}

\* one draft name for every conversion
TempPath_shared(path) == [dir |-> path.dir, base |-> <<"temp_", "cv", ".docx">>]

\* os.path.join(os.path.dirname(self.docx_file), "temp_" + os.path.basename(self.docx_file))
TempPath(path) == [dir |-> path.dir, base |-> <<"temp_">> \o path.base]

OutputNames == {<<"a", ".docx">>, <<"b", ".docx">>, <<"temp_", "a", ".docx">>}

OutputPaths == {[dir |-> "outputs", base |-> b] : b \in OutputNames}

Paths == OutputPaths \cup {TempPath(path) : path \in OutputPaths}

Absent == [writer |-> 0, origin |-> 0, kind |-> "absent"]

InitPair ==
    /\ docx_file \in {f \in [Conversions -> OutputPaths] : f[1] # f[2]}
    /\ cpc = [i \in Conversions |-> "start"]
    /\ cdoc = [i \in Conversions |-> Absent]
    /\ cresult = [i \in Conversions |-> "none"]
    /\ touched = [i \in Conversions |-> {}]
    /\ fs = [path \in Paths |-> Absent]
    /\ pc = "start" /\ tex_exists = FALSE /\ draft = NoDoc /\ pandoc = "none"
    /\ draftExists = FALSE /\ outExists = FALSE /\ outDoc = NoDoc
    /\ doc = NoDoc /\ prev = NoDoc /\ photo = <<>> /\ applied = <<>>
    /\ result = "none" /\ trace = <<>>

\* convert() of conversion i: the existence check
PairCheckSource(i) ==
    /\ cpc[i] = "start"
    /\ \E exists \in BOOLEAN :
          IF exists
          THEN cpc' = [cpc EXCEPT ![i] = "pandoc"] /\ cresult' = cresult
          ELSE cpc' = [cpc EXCEPT ![i] = "done"] /\ cresult' = [cresult EXCEPT ![i] = "False"]
    /\ UNCHANGED <<docx_file, cdoc, touched, fs, single>>

\* convert_with_pandoc of conversion i: the converter writes the draft path
PairConvertWithPandoc(i) ==
    /\ cpc[i] = "pandoc"
    /\ \E outcome \in PandocOutcomes, wrote \in BOOLEAN :
          /\ outcome = "ok" => wrote
          /\ outcome = "notfound" => ~wrote
          /\ fs' = IF wrote
                   THEN [fs EXCEPT ![TempPath(docx_file[i])] =
                            [writer |-> i, origin |-> i, kind |-> "draft"]]
                   ELSE fs
          /\ touched' = IF wrote
                        THEN [touched EXCEPT ![i] = @ \cup {TempPath(docx_file[i])}]
                        ELSE touched
          /\ IF PandocReturns(outcome)
             THEN cpc' = [cpc EXCEPT ![i] = "load"] /\ cresult' = cresult
             ELSE cpc' = [cpc EXCEPT ![i] = "done"]
                  /\ cresult' = [cresult EXCEPT ![i] = "False"]
    /\ UNCHANGED <<docx_file, cdoc, single>>

\* load_and_refine_document of conversion i: Document(temp_docx_path) reads
\* the draft path and may raise; the refinement works on self.doc only
PairLoadAndRefine(i) ==
    /\ cpc[i] = "load"
    /\ \E ok \in BOOLEAN :
          IF ok /\ fs[TempPath(docx_file[i])] # Absent
          THEN /\ cdoc' = [cdoc EXCEPT ![i] = fs[TempPath(docx_file[i])]]
               /\ cpc' = [cpc EXCEPT ![i] = "save"]
               /\ cresult' = cresult
          ELSE /\ cdoc' = cdoc
               /\ cpc' = [cpc EXCEPT ![i] = "done"]
               /\ cresult' = [cresult EXCEPT ![i] = "raised"]
    /\ touched' = IF fs[TempPath(docx_file[i])] # Absent
                  THEN [touched EXCEPT ![i] = @ \cup {TempPath(docx_file[i])}]
                  ELSE touched
    /\ UNCHANGED <<docx_file, fs, single>>

\* save_document of conversion i: self.doc.save(self.docx_file), which may raise
PairSaveDocument(i) ==
    /\ cpc[i] = "save"
    /\ \E ok \in BOOLEAN :
          IF ok
          THEN /\ fs' = [fs EXCEPT ![docx_file[i]] =
                           [writer |-> i, origin |-> cdoc[i].origin, kind |-> "final"]]
               /\ touched' = [touched EXCEPT ![i] = @ \cup {docx_file[i]}]
               /\ cpc' = [cpc EXCEPT ![i] = "cleanup"]
               /\ cresult' = cresult
          ELSE /\ fs' = fs
               /\ touched' = touched
               /\ cpc' = [cpc EXCEPT ![i] = "done"]
               /\ cresult' = [cresult EXCEPT ![i] = "raised"]
    /\ UNCHANGED <<docx_file, cdoc, single>>

\* save_document of conversion i: the draft path removed if it exists, and
\* the return of convert()
PairRemoveDraft(i) ==
    /\ cpc[i] = "cleanup"
    /\ cpc' = [cpc EXCEPT ![i] = "done"]
    /\ IF fs[TempPath(docx_file[i])] # Absent
       THEN /\ touched' = [touched EXCEPT ![i] = @ \cup {TempPath(docx_file[i])}]
            /\ \E ok \in BOOLEAN :
                  IF ok
                  THEN /\ fs' = [fs EXCEPT ![TempPath(docx_file[i])] = Absent]
                       /\ cresult' = [cresult EXCEPT ![i] = "True"]
                  ELSE /\ fs' = fs
                       /\ cresult' = [cresult EXCEPT ![i] = "raised"]
       ELSE /\ touched' = touched
            /\ fs' = fs
            /\ cresult' = [cresult EXCEPT ![i] = "True"]
    /\ UNCHANGED <<docx_file, cdoc, single>>

NextPair ==
    \E i \in Conversions :
        \/ PairCheckSource(i)
        \/ PairConvertWithPandoc(i)
        \/ PairLoadAndRefine(i)
        \/ PairSaveDocument(i)
        \/ PairRemoveDraft(i)

SpecPair == InitPair /\ [][NextPair]_vars

(***************************************************************************)
(* Properties.                                                             *)
(***************************************************************************)
FullTrace ==
    <<"exists", "pandoc", "load", "styles", "layout", "sections", "lists", "header",
      "hyperlinks", "fixtext", "save", "remove">>

Occurs(event) == \E i \in DOMAIN trace : trace[i] = event

RunTexts(p) == [i \in DOMAIN p.runs |-> p.runs[i].text]

\* the text of every run of every paragraph, in the body and in the tables
AllTexts(d) ==
    [paragraphs |-> [i \in DOMAIN d.paragraphs |-> RunTexts(d.paragraphs[i])],
     tables |->
        [t \in DOMAIN d.tables |->
            [r \in DOMAIN d.tables[t] |->
                [c \in DOMAIN d.tables[t][r] |->
                    [k \in DOMAIN d.tables[t][r][c] |-> RunTexts(d.tables[t][r][c][k])]]]]]

\* the paragraphs of the table cells of d
CellParas(d) ==
    UNION {UNION {UNION {{d.tables[t][r][c][k] : k \in DOMAIN d.tables[t][r][c]} :
                            c \in DOMAIN d.tables[t][r]} :
                     r \in DOMAIN d.tables[t]} :
              t \in DOMAIN d.tables}

\* C1: no exception escapes convert(): whatever fails, convert() returns a
\* boolean and never raises to its caller.
C1_NoExceptionEscapes == result # "raised"

\* C2: whenever convert() has finished, on success or on failure, no draft
\* file temp_<output name> is left.
C2_NoDraftLeft == pc = "done" => ~draftExists

\* C3: with a source path that does not exist convert() returns False and
\* has not run the converter, loaded or changed a document or written a
\* file; the existence check is the first step of every run.
C3_MissingSourceShortCircuits ==
    /\ trace # <<>> => trace[1] = "exists"
    /\ ~tex_exists =>
          /\ pc \in {"start", "done"}
          /\ pc = "done" => result = "False" /\ trace = <<"exists">>
          /\ pandoc = "none"
          /\ ~Occurs("pandoc") /\ ~Occurs("load") /\ ~Occurs("save")
          /\ doc.paragraphs = <<>> /\ doc.tables = <<>>
          /\ ~draftExists /\ ~outExists

C3_Witness == ~tex_exists /\ pc = "done" /\ result = "False"

\* C4: when the converter is not found or exits non-zero convert() returns
\* False, no refinement or save has run, no output file is written, and the
\* converter has been run exactly once.
C4_ConverterFailureIsTerminal ==
    /\ pandoc \in {"nonzero", "notfound"} =>
          /\ pc = "done" /\ result = "False"
          /\ trace = <<"exists", "pandoc">>
          /\ doc.paragraphs = <<>> /\ doc.tables = <<>>
          /\ ~outExists
    /\ Cardinality({i \in DOMAIN trace : trace[i] = "pandoc"}) <= 1

C4_Witness == pandoc = "nonzero" /\ draftExists /\ result = "False"

\* C5: a run that returns True has taken the steps check, converter, load,
\* the seven refinement calls, save, remove in exactly this order, each
\* once; the output file exists and holds the refined Document, which was
\* written only after the last refinement call, and the draft is gone.
C5_SuccessRunsEveryStageInOrder ==
    /\ result = "True" =>
          /\ trace = FullTrace
          /\ pandoc = "ok"
          /\ outExists /\ outDoc = doc
          /\ ~draftExists
    /\ outExists => Len(trace) >= 11 /\ SubSeq(trace, 1, 11) = SubSeq(FullTrace, 1, 11)
    /\ Occurs("remove") => trace[Len(trace)] = "remove" /\ trace[Len(trace) - 1] = "save"

C5_Witness == result = "True" /\ outExists /\ doc.tables # <<>>

\* C6: the text correction is at its fixed point after one pass: applied to
\* its own result, _fix_text_issues changes the text of no paragraph or run.
C6_EngineIdempotent == pc = "save" => AllTexts(_fix_text_issues(doc)) = AllTexts(doc)

\* the lines of row 0 / column 0 of the table the header stage rebuilt
RebuiltHeaderLines == SplitLines(CellText(doc.tables[FirstHeaderTable(prev.tables)][1][1]))

\* C7: after the header stage the matching table has one row and its first
\* cell holds exactly two lines, the name line and then the canonical
\* contact line, whatever the cell held before.
C7_HeaderIsNameThenContact ==
    (pc = "hyperlinks" /\ HeaderTables(prev.tables) # {}) =>
        /\ Len(doc.tables[FirstHeaderTable(prev.tables)]) = 1
        /\ Len(RebuiltHeaderLines) = 2
        /\ Contains(RebuiltHeaderLines[1], sName)
        /\ RebuiltHeaderLines[2] = sContact

\* C8: the header stage changes at most one table, the first in document
\* order that has two rows, two columns and both markers; every other table
\* and everything else in the Document is as before, and no error is raised.
C8_OnlyFirstHeaderTableChanges ==
    pc = "hyperlinks" =>
        /\ result = "none"
        /\ DOMAIN doc.tables = DOMAIN prev.tables
        /\ [doc EXCEPT !.tables = prev.tables] = prev
        /\ \A i \in DOMAIN doc.tables :
              doc.tables[i] # prev.tables[i] =>
                  /\ Len(prev.tables[i]) >= 2
                  /\ Len(prev.tables[i][1]) >= 2
                  /\ Contains(CellText(prev.tables[i][1][1]), sName)
                  /\ Contains(CellText(prev.tables[i][2][1]), sCottbus)
                  /\ \A j \in 1..(i - 1) : ~IsHeaderTable(prev.tables[j])

C8_Witness ==
    /\ pc = "hyperlinks"
    /\ Cardinality(HeaderTables(prev.tables)) >= 2
    /\ \E i \in HeaderTables(prev.tables) : doc.tables[i] = prev.tables[i]
    /\ doc # prev

\* the formatting of a paragraph's role
HasRoleFormat(p) ==
    /\ IsHeading(ParText(p)) => p.style = "Heading 1" /\ p.alignment = "LEFT"
    /\ IsListItem(ParText(p)) =>
          /\ p.left_indent = Some(10)
          /\ p.space_after # None
          /\ p.space_after[1] < 0

AfterFormatting == pc \in {"header", "hyperlinks", "fixtext"}

\* C9 as stated: after the heading and list formatting every Paragraph of
\* the Document, those of the table cells included, carries the formatting
\* of its role.
C9_EveryParagraphFormatted ==
    AfterFormatting =>
        /\ \A i \in DOMAIN doc.paragraphs : HasRoleFormat(doc.paragraphs[i])
        /\ \A p \in CellParas(doc) : HasRoleFormat(p)

\* C9 amended: after the heading and list formatting every top-level
\* paragraph of the Document (doc.paragraphs) carries the formatting of its
\* role: heading style and left alignment for a section title, the fixed
\* left indent and a negative space-after for a list item.
C9_BodyParagraphsFormatted ==
    AfterFormatting => \A i \in DOMAIN doc.paragraphs : HasRoleFormat(doc.paragraphs[i])

C9_Witness ==
    /\ pc = "header"
    /\ \E i, j \in DOMAIN doc.paragraphs :
          /\ IsHeading(ParText(doc.paragraphs[i])) /\ draft.paragraphs[i].alignment = "CENTER"
          /\ IsListItem(ParText(doc.paragraphs[j])) /\ draft.paragraphs[j].space_after = Some(9)

\* the paragraph that was one of the truncated ranges is the corrected range
Repaired(before, after) ==
    \A k \in DOMAIN TruncatedRanges :
        ParText(before) = TruncatedRanges[k] => ParText(after) = CorrectedRanges[k]

\* C10: a paragraph whose text is one of the five truncated date ranges
\* leaves the text correction as the corrected full range, no doubled month
\* prefix left, in the body and in a table cell, however its runs are cut;
\* and the doubled-prefix collapse turns "0808/2022" into "08/2022".
C10_TruncatedRangesRepaired ==
    pc = "save" =>
        /\ \A i \in DOMAIN prev.paragraphs : Repaired(prev.paragraphs[i], doc.paragraphs[i])
        /\ \A t \in DOMAIN prev.tables : \A r \in DOMAIN prev.tables[t] :
              \A c \in DOMAIN prev.tables[t][r] : \A k \in DOMAIN prev.tables[t][r][c] :
                  Repaired(prev.tables[t][r][c][k], doc.tables[t][r][c][k])
        /\ \A i \in DOMAIN prev.paragraphs :
              RunTexts(prev.paragraphs[i]) = <<sDoubled>> =>
                  /\ ApplyRules(DoubledPrefixRules, ParText(prev.paragraphs[i]))
                         = <<"0", "8", "/">> \o y2022
                  /\ ParText(doc.paragraphs[i]) = <<"0", "8", "/">> \o y2022

C10_Witness ==
    /\ pc = "save"
    /\ \E i \in DOMAIN prev.paragraphs :
          /\ ParText(prev.paragraphs[i]) = TruncatedRanges[1]
          /\ Len(prev.paragraphs[i].runs) = 2
          /\ ParText(doc.paragraphs[i]) = CorrectedRanges[1]

\* a known string somewhere in text, whitespace, and the same string again
AdjacentCopies(text) ==
    \E k \in DOMAIN DuplicatePatterns, i \in 1..Len(text) :
        DupMatchAt(DuplicatePatterns[k], text, i)

\* C11: the duplicate collapse, the last pass of the text correction, leaves
\* no known string (name, email, location, approximate quantity) followed by
\* whitespace and itself, in any paragraph of the body or of a table cell: a
\* string repeated with only whitespace between the copies comes out as a
\* single copy.
C11_DuplicatesCollapsed ==
    pc = "save" =>
        /\ \A i \in DOMAIN doc.paragraphs : ~AdjacentCopies(ParText(doc.paragraphs[i]))
        /\ \A p \in CellParas(doc) : ~AdjacentCopies(ParText(p))

\* the header table of document d: the table at the place of the draft's
\* first matching table
HeaderOf(d) == d.tables[FirstHeaderTable(draft.tables)]

\* the lines of the header cell, row 0 / column 0
HeaderCellLines(d) == SplitLines(CellText(HeaderOf(d)[1][1]))

NoPicture(table) ==
    \A r \in DOMAIN table : \A c \in DOMAIN table[r] : \A k \in DOMAIN table[r][c] :
        \A i \in DOMAIN table[r][c][k].runs : ~table[r][c][k].runs[i].pic

\* the draft has a header table with a contact line (location and email
\* markers) and no phone number, and the portrait was found at no path
HeaderWithoutPhoneAndPhoto ==
    /\ HeaderTables(draft.tables) # {}
    /\ \E r \in DOMAIN HeaderOf(draft) : \E c \in DOMAIN HeaderOf(draft)[r] :
          \E k \in DOMAIN SplitLines(CellText(HeaderOf(draft)[r][c])) :
              /\ Contains(SplitLines(CellText(HeaderOf(draft)[r][c]))[k], sCottbus)
              /\ Contains(SplitLines(CellText(HeaderOf(draft)[r][c]))[k], sEmail)
    /\ \A r \in DOMAIN HeaderOf(draft) : \A c \in DOMAIN HeaderOf(draft)[r] :
          ~Contains(CellText(HeaderOf(draft)[r][c]), sPhone)
    /\ photo = <<"absent", "absent">>

CanonicalSecondLine(d) ==
    /\ Len(HeaderCellLines(d)) >= 2
    /\ HeaderCellLines(d)[2] = sContact
    /\ NoPicture(HeaderOf(d))

\* C12: when the draft's header has the name, location and email markers,
\* no phone number, and the portrait exists at no candidate path, the
\* header stage does not fail, the second line of the header cell is the
\* canonical contact string right after the stage and in the saved output
\* (after the text correction), no picture is embedded, and the run that
\* completes returns True.
C12_HeaderWithoutPhoto ==
    HeaderWithoutPhoneAndPhoto =>
        /\ pc # "done" => result = "none"
        /\ CanonicalSecondLine(doc)
        /\ outExists => CanonicalSecondLine(outDoc)
        /\ result = "True" => outExists

Loaded == pc \notin {"start", "pandoc", "load"} /\ doc # NoDoc

\* C13: the style and layout normalisation (style setup, page layout,
\* heading and list formatting, colour stripping) is idempotent: applied to
\* its own result it changes no style, section, paragraph format or run
\* colour, whatever Document of the run it starts from; and the Document
\* the run has normalised is left as it is by a second normalisation.
C13_NormalizerIdempotent ==
    Loaded =>
        /\ Normalizer(Normalizer(doc)) = Normalizer(doc)
        /\ (pc = "fixtext" /\ photo = <<>>) => Normalizer(doc) = doc

C13_Witness ==
    /\ pc = "fixtext"
    /\ photo = <<>>
    /\ "Heading 1" \notin DOMAIN draft.styles
    /\ \E i \in DOMAIN draft.paragraphs :
          /\ IsListItem(ParText(draft.paragraphs[i]))
          /\ draft.paragraphs[i].left_indent = Some(36)
          /\ \E k \in DOMAIN draft.paragraphs[i].runs : draft.paragraphs[i].runs[k].color = "blue"
          /\ doc.paragraphs[i].left_indent = Some(10)
          /\ \A k \in DOMAIN doc.paragraphs[i].runs : doc.paragraphs[i].runs[k].color # "blue"
    /\ doc.sections # draft.sections
    /\ doc.styles # draft.styles

\* the groups of one visit applied to a text, in the recorded order
RECURSIVE GroupsOnText(_, _)
GroupsOnText(events, text) ==
    IF events = <<>> THEN text
    ELSE LET t == GroupOnText(Head(events).group, text)
         IN  IF t = text THEN GroupsOnText(Tail(events), text)
             ELSE GroupsOnText(Tail(events), t)

OnText(e) == e.pass \notin {"runs", "content runs"}

\* one visit of a loop to a paragraph: the events on its text and the text
\* written back if it differs, or the events on each of its runs
VisitOnPara(events, p) ==
    IF OnText(Head(events))
    THEN Rewrite(p, GroupsOnText(events, ParText(p)))
    ELSE [p EXCEPT !.runs =
             [i \in DOMAIN p.runs |->
                 [p.runs[i] EXCEPT !.text = GroupsOnText(events, p.runs[i].text)]]]

VisitOnDoc(events, d) ==
    LET node == Head(events).node
    IN  IF node[1] = 0
        THEN [d EXCEPT !.paragraphs[node[4]] = VisitOnPara(events, @)]
        ELSE [d EXCEPT !.tables[node[1]][node[2]][node[3]][node[4]] = VisitOnPara(events, @)]

\* the number of events at the head of log that belong to one visit
RECURSIVE VisitLen(_)
VisitLen(log) ==
    IF Len(log) >= 2 /\ log[2].pass = log[1].pass /\ log[2].node = log[1].node
    THEN 1 + VisitLen(Tail(log))
    ELSE 1

\* the events of a log carried out one visit after the other
RECURSIVE Replay(_, _)
Replay(log, d) ==
    IF log = <<>> THEN d
    ELSE LET n  == VisitLen(log)
             d2 == VisitOnDoc(SubSeq(log, 1, n), d)
         IN  IF d2 = d THEN Replay(SubSeq(log, n + 1, Len(log)), d)
             ELSE Replay(SubSeq(log, n + 1, Len(log)), d2)

GroupOrder ==
    <<"date repair", "percentage spacing", "stray-line removal", "doubled-prefix collapse",
      "fallback bare-slash repair", "content restoration", "duplicate collapse">>

GroupRank(group) == CHOOSE k \in DOMAIN GroupOrder : GroupOrder[k] = group

PassRank(pass) == CHOOSE k \in DOMAIN EnginePasses : EnginePasses[k] = pass

\* every group of the order reaches every paragraph of d
EveryGroupEverywhere(log, d) ==
    \A g \in DOMAIN GroupOrder : \A n \in DOMAIN Nodes(d) :
        \E i \in DOMAIN log : log[i].group = GroupOrder[g] /\ log[i].node = Nodes(d)[n]

\* C14 as stated: every rule group has been applied to every paragraph and
\* table-cell paragraph before any rule of the next group is applied to any
\* paragraph, in the order date repair, percentage spacing, stray-line
\* removal, doubled-prefix collapse, fallback repair, content restoration,
\* duplicate collapse.
C14_GroupsRunToCompletion ==
    pc = "save" =>
        /\ EveryGroupEverywhere(applied, prev)
        /\ \A i, j \in DOMAIN applied :
              i < j => GroupRank(applied[i].group) <= GroupRank(applied[j].group)

\* C14 amended: the engine's result is that of its events carried out in
\* the recorded order, visit by visit; every loop (pass) has visited every paragraph and
\* table-cell paragraph before the next loop begins; every paragraph gets
\* the seven groups, on its text, in the stated order; within the first
\* loop the three groups, and within the second the two, are applied to a
\* paragraph together before the loop goes to the next paragraph; the
\* doubled-prefix collapse is applied once more, run by run, after the
\* fallback repair.
C14_PassesRunToCompletion ==
    pc = "save" =>
        /\ Replay(applied, prev) = doc
        /\ EveryGroupEverywhere(applied, prev)
        /\ \A i, j \in DOMAIN applied :
              i < j =>
                  /\ PassRank(applied[i].pass) <= PassRank(applied[j].pass)
                  /\ (applied[i].node = applied[j].node /\ OnText(applied[i]) /\ OnText(applied[j]))
                        => GroupRank(applied[i].group) < GroupRank(applied[j].group)
        /\ \A i \in DOMAIN applied :
              (i < Len(applied) /\ applied[i].group = "date repair")
                  => /\ applied[i + 1].group = "percentage spacing"
                     /\ applied[i + 1].node = applied[i].node

C14_Witness ==
    /\ pc = "save"
    /\ Len(Nodes(prev)) >= 2
    /\ doc # prev
    /\ \E i, j \in DOMAIN applied :
          /\ i < j
          /\ applied[i].group = "percentage spacing"
          /\ applied[j].group = "date repair"
          /\ applied[i].node # applied[j].node

\* the draft and the output path of conversion i
FilesOf(i) == {docx_file[i], TempPath(docx_file[i])}

\* conversion i has touched no file of the other conversion, has loaded a
\* draft of its own, and its files hold what it wrote from its own draft
Isolated(i) ==
    /\ \A j \in Conversions \ {i} : touched[i] \cap FilesOf(j) = {}
    /\ cdoc[i] # Absent => cdoc[i].writer = i /\ cdoc[i].kind = "draft"
    /\ \A path \in FilesOf(i) :
          fs[path] # Absent => fs[path].writer = i /\ fs[path].origin = i
    /\ cresult[i] = "True" =>
          fs[docx_file[i]].kind = "final" /\ fs[TempPath(docx_file[i])] = Absent

\* C15 as stated: two conversions with different output file names in one
\* directory never read, overwrite or delete each other's draft or output
\* file, however their converter, load, save and delete steps interleave.
C15_DifferentNamesIsolated == \A i \in Conversions : Isolated(i)

\* no output name is the draft name of the other conversion
NoTempClash ==
    \A i \in Conversions : \A j \in Conversions \ {i} : docx_file[i] # TempPath(docx_file[j])

\* C15 amended: two conversions with different output file names in one
\* directory, neither name being "temp_" followed by the other, never
\* read, overwrite or delete each other's draft or output file, however
\* their steps interleave; each loads the draft its own converter wrote and
\* a conversion that returns True leaves its own output and no draft.
C15_UnclashingNamesIsolated == NoTempClash => \A i \in Conversions : Isolated(i)

C15_Witness ==
    /\ NoTempClash
    /\ cpc[1] = "save" /\ fs[TempPath(docx_file[1])].kind = "draft"
    /\ cpc[2] = "cleanup" /\ fs[docx_file[2]].kind = "final"
    /\ fs[TempPath(docx_file[2])].kind = "draft"

\* C16: a date that carries a two-digit month before the slash (a month
\* 01-12, a year 2016, 2020, 2021, 2022 or 2025) reads after the whole text
\* correction exactly as before it, in the body and in a table cell.
C16_FullDatesUntouched ==
    pc = "save" =>
        /\ \A i \in DOMAIN prev.paragraphs :
              ParText(prev.paragraphs[i]) \in FullDates
                  => ParText(doc.paragraphs[i]) = ParText(prev.paragraphs[i])
        /\ \A t \in DOMAIN prev.tables : \A r \in DOMAIN prev.tables[t] :
              \A c \in DOMAIN prev.tables[t][r] : \A k \in DOMAIN prev.tables[t][r][c] :
                  ParText(prev.tables[t][r][c][k]) \in FullDates
                      => ParText(doc.tables[t][r][c][k]) = ParText(prev.tables[t][r][c][k])

\* step a has been taken before every step b of the trace
Before(a, b) ==
    \A i \in DOMAIN trace : trace[i] = b => \E j \in 1..(i - 1) : trace[j] = a

\* C17 as stated: the style setup, the page layout, the colour stripping and
\* the heading/list formatting have all finished before the header stage
\* starts, and the header stage has finished before the first text
\* correction rule is applied.
C17_NormalizerBeforeHeader ==
    /\ \A step \in {"styles", "layout", "hyperlinks", "sections", "lists"} :
          Before(step, "header")
    /\ Before("header", "fixtext")
    /\ applied # <<>> => Occurs("header")

\* C17 amended: the style setup, the page layout and the heading/list
\* formatting have finished before the header stage starts; the colour
\* stripping runs after the header stage; the header stage and the colour
\* stripping have finished before the first text correction rule is
\* applied; and every stage works on the Document the stage before it left.
C17_StagesInOrder ==
    /\ \A step \in {"styles", "layout", "sections", "lists"} : Before(step, "header")
    /\ Before("header", "hyperlinks")
    /\ Before("header", "fixtext")
    /\ Before("hyperlinks", "fixtext")
    /\ applied # <<>> => Occurs("header") /\ Occurs("hyperlinks")
    /\ pc = "layout" => prev = draft /\ doc = _setup_document_styles(prev)
    /\ pc = "sections" => doc = _apply_page_layout(prev)
    /\ pc = "lists" => doc = _format_sections(prev)
    /\ pc = "header" => doc = _format_lists(prev)
    /\ pc = "hyperlinks" =>
          \E cwdPhoto \in PhotoStatus, texDirPhoto \in PhotoStatus :
              doc = _handle_header_with_photo(prev, cwdPhoto, texDirPhoto)
    /\ pc = "fixtext" => doc = _format_hyperlinks(prev)
    /\ pc = "save" => doc = _fix_text_issues(prev)

C17_Witness ==
    /\ pc = "save"
    /\ draft = WholeDoc
    /\ photo # <<>>
    /\ applied # <<>>
    /\ doc.paragraphs[1].style = "Heading 1"
    /\ doc.paragraphs[1].runs[1].color = "none"
    /\ doc.paragraphs[2].left_indent = Some(10)
    /\ ParText(doc.paragraphs[2]) = <<"-", " ">> \o CorrectedRanges[3]
    /\ Len(doc.tables[1]) = 1

====
